---- MODULE Spec2Model ----
(***************************************************************************)
(* Coordinator of the scraping swarm (src/server.py): the WorkManager's    *)
(* in-memory sets and dispatch queue, the three append-only files under    *)
(* the output directory, the background queue manager thread, the HTTP     *)
(* handlers that run under WorkManager.lock, and process kill + restart.   *)
(***************************************************************************)
EXTENDS Integers, Sequences, FiniteSets, TLC

VARIABLES
    completed,        \* WorkManager.completed : set[int]
    private,          \* WorkManager.private   : set[int]
    assigned,         \* WorkManager.assigned  : set[int]
    available_queue,  \* WorkManager.available_queue : deque
    last_queued_id,   \* WorkManager.last_queued_id
    lock,             \* WorkManager.lock : holder, or Free
    public_file,      \* output/public.txt   : sequence of lines
    private_file,     \* output/private.txt  : sequence of lines
    results_file,     \* output/results.jsonl: sequence of JSON records
    pc,               \* position of the handler that holds the lock
    work_id,          \* local work_id of that handler
    qm_pc,            \* position of the _queue_manager thread
    qm_new_ids,       \* _queue_manager local new_ids
    qm_end_id,        \* _queue_manager local end_id
    epoch,            \* number of process restarts so far
    acked,            \* <<endpoint, id>> of every commit answered "success"
    acked_before,     \* value of acked when the current process started
    response,         \* HTTP status of the request answered last (0: none yet)
    dispatched,       \* the ids /work-batch returned in this process, in order
    results_exists,   \* output/results.jsonl exists
    segments,         \* k |-> records of output/results_k.jsonl, where it exists
    gz,               \* the k for which output/results_k.jsonl.gz exists
    gz_pending,       \* the k a /rotate-file handler is about to compress
    removed,          \* other files /cleanup-file has unlinked
    faults,           \* I/O errors raised so far
    rotated_file,     \* "rotated_file" of the last /rotate-file success
    rs_values,        \* <<values>> right after RangeSet.from_values(values), else <<>>
    ranges,           \* RangeSet.ranges of the RangeSet object looked at
    returned,         \* the list its last pop_front or filter_range returned
    config_end_id,    \* Config.end_id, the last id of the range to scrape
    die_on_rate_limit, \* worker.py: AO3Scraper.die_on_rate_limit
    current_batch,    \* worker.py: AO3Scraper.current_batch
    processed_ids,    \* worker.py: AO3Scraper.processed_ids
    w_pc,             \* position of AO3Scraper.run
    w_index,          \* position of run's "for work_id in work_ids" (1-based)
    w_answer,         \* what the upstream answered last for the id being fetched
    submitted,        \* the submissions made for the batch, in order
    w_failed,         \* the ids with a submission that failed
    w_faults,         \* submissions the coordinator has failed so far
    w_retries,        \* answers that made fetch_work try the id again
    returned_work     \* <<work_ids>> right after a POST to /return-work

\* the rotated segments, the other files and the I/O error count
fsvars == <<segments, gz, gz_pending, removed, faults, rotated_file>>

\* the RangeSet object (src/rangeset.py), which the coordinator does not use
rsvars == <<rs_values, ranges, returned>>

\* the worker process (src/worker.py)
wkvars == <<die_on_rate_limit, current_batch, processed_ids, w_pc, w_index,
            w_answer, submitted, w_failed, w_faults, w_retries, returned_work>>

vars == <<completed, private, assigned, available_queue, last_queued_id, lock,
          public_file, private_file, results_file, pc, work_id,
          qm_pc, qm_new_ids, qm_end_id, epoch, acked, acked_before,
          response, dispatched, results_exists, fsvars, rsvars, config_end_id,
          wkvars>>

----------------------------------------------------------------------------
(* The configuration checked, scaled program constants, and bounds *)

\* Config.start_id / Config.end_id (command line --start-id / --end-id):
\* the range 9..11 has one-digit and two-digit ids
StartId == 9
EndId == 11

\* a range one id longer, for the dispatch queue to reach its largest size
WideEndId == EndId + 1

\* QUEUE_BUMP_SIZE and QUEUE_MIN_SIZE, scaled to the size of the id range
QUEUE_BUMP_SIZE == 2
QUEUE_MIN_SIZE == 2

MaxBatch == 2      \* largest batch_size a worker asks for
MaxResults == 2    \* records appended to results.jsonl in one run
MaxRestarts == 1   \* process restarts in one run
MaxFaults == 1     \* I/O errors in one run
MaxRotations == 2  \* rotated segments in one run
MaxValue == 5      \* largest integer given to a RangeSet
MaxLen == 3        \* longest list given to from_values or to a union
MaxRetries == 1    \* answers that make fetch_work try one id again

Ids == StartId..EndId
\* WorkManager.lock is free or held by a request handler thread (the queue
\* manager holds it only inside its atomic steps). The server runs every
\* request on a thread of its own, any number of them at once; a handler
\* reads and writes nothing before it holds the lock, so the model keeps the
\* position of the one handler that holds it.
Free == "free"
Handler == "handler"

----------------------------------------------------------------------------
(* Text of the files: decimal lines written with f"{work_id}\n", read back *)
(* with int(line.strip()).                                                 *)

Digit == <<"0", "1", "2", "3", "4", "5", "6", "7", "8", "9">>

IsDigit(c) == c \in {Digit[d] : d \in 1..10}

DigitValues ==
    [c \in {Digit[d] : d \in 1..10} |-> (CHOOSE d \in 1..10 : Digit[d] = c) - 1]

DigitVal(c) == DigitValues[c]

RECURSIVE FormatInt(_)
FormatInt(n) ==
    IF n < 10 THEN <<Digit[n + 1]>>
    ELSE Append(FormatInt(n \div 10), Digit[(n % 10) + 1])

\* int(s) succeeds on a non-empty string of decimal digits
IsIntText(s) == Len(s) > 0 /\ \A i \in 1..Len(s) : IsDigit(s[i])

\* the value of the first n characters of s
RECURSIVE ParsePrefix(_, _)
ParsePrefix(s, n) ==
    IF n = 0 THEN 0 ELSE 10 * ParsePrefix(s, n - 1) + DigitVal(s[n])

ParseInt(s) == ParsePrefix(s, Len(s))

Range(s) == {s[i] : i \in 1..Len(s)}

\* the id strings a worker sends as WorkData.id: str(work_id)
WorkIdTexts == {FormatInt(i) : i \in Ids}

\* id strings that WorkData (id: str) accepts and int() does not: "1x", ""
MalformedTexts == {<<"1", "x">>, <<>>}

----------------------------------------------------------------------------
(* Recovery: WorkManager.__init__ + load_completed_work *)

\* a recovery that reads only one-character lines
Mut_LoadIds_OneDigit(file) ==
    {ParseInt(file[i]) : i \in {j \in 1..Len(file) : IsIntText(file[j]) /\ Len(file[j]) = 1}}

LoadIds(file) == {ParseInt(file[i]) : i \in {j \in 1..Len(file) : IsIntText(file[j])}}

\* a cursor that starts after the highest recovered id
Mut_NextId_AfterMax(n, comp, priv) ==
    IF comp \cup priv = {} THEN n
    ELSE (CHOOSE m \in comp \cup priv : \A x \in comp \cup priv : x <= m) + 1

RECURSIVE NextId(_, _, _)
NextId(n, comp, priv) ==
    IF n \in comp \/ n \in priv THEN NextId(n + 1, comp, priv) ELSE n

\* the state after Config.__init__ and WorkManager.__init__ on an empty
\* output directory, for --end-id end_id
InitWith(end_id) ==
    /\ config_end_id = end_id
    /\ public_file = <<>>
    /\ private_file = <<>>
    /\ results_file = <<>>
    /\ completed = LoadIds(public_file)
    /\ private = LoadIds(private_file)
    /\ assigned = {}
    /\ available_queue = <<>>
    /\ last_queued_id = NextId(StartId, completed, private) - 1
    /\ lock = Free
    /\ pc = "idle"
    /\ work_id = 0
    /\ qm_pc = "check"
    /\ qm_new_ids = {}
    /\ qm_end_id = 0
    /\ epoch = 0
    /\ acked = {}
    /\ acked_before = {}
    /\ response = 0
    /\ dispatched = <<>>
    /\ results_exists = TRUE
    /\ segments = <<>>
    /\ gz = {}
    /\ gz_pending = {}
    /\ removed = {}
    /\ faults = 0
    /\ rotated_file = <<>>
    /\ rs_values = <<>>
    /\ ranges = <<>>
    /\ returned = <<>>
    /\ current_batch = <<>>
    /\ processed_ids = {}
    /\ w_pc = "get_batch"
    /\ w_index = 0
    /\ w_answer = ""
    /\ submitted = <<>>
    /\ w_failed = {}
    /\ w_faults = 0
    /\ w_retries = 0
    /\ returned_work = <<>>

Init == InitWith(EndId) /\ die_on_rate_limit = FALSE

\* a lock that every thread takes whatever its state
Mut_LockAvailable_Always == TRUE

\* "with self.lock": the thread goes on when no other thread holds the lock
LockAvailable == lock = Free

----------------------------------------------------------------------------
(* _queue_manager: the background thread that refills the queue *)

Min(a, b) == IF a <= b THEN a ELSE b

\* exclusion sets that forget completed and private, or private
Mut_Excluded_AssignedOnly == assigned

Mut_Excluded_NoPrivate == completed \cup assigned

\* excluded_ids = self.completed | self.private | self.assigned
Excluded == completed \cup private \cup assigned

\* deque.extend(new_ids) iterates a Python set, whose iteration order the
\* language leaves unspecified: every order of its elements
Orders(S) ==
    {s \in [1..Cardinality(S) -> S] : \A i, j \in 1..Cardinality(S) : s[i] = s[j] => i = j}

\* a status check that always finds ids left to generate
Mut_CanGenerate_Always == TRUE

\* can_generate = self.last_queued_id < self.config.end_id
CanGenerate == last_queued_id < config_end_id

\* a producer that refills whatever the queue holds
Mut_BelowMinSize_Always == TRUE

\* "queue_size < QUEUE_MIN_SIZE", on the size read under the lock
BelowMinSize == Len(available_queue) < QUEUE_MIN_SIZE

\* "with self.lock: queue_size = ...; can_generate = ..." and the test that
\* follows; when the test fails the thread sleeps and loops
QM_Check ==
    /\ qm_pc = "check"
    /\ LockAvailable
    /\ BelowMinSize
    /\ CanGenerate
    /\ qm_pc' = "snapshot"
    /\ UNCHANGED <<wkvars, config_end_id, rsvars, completed, private, assigned, available_queue, last_queued_id,
                   lock, public_file, private_file, results_file, pc, work_id,
                   qm_new_ids, qm_end_id, epoch, acked, acked_before,
                   response, dispatched, results_exists, fsvars>>

\* the snapshot under the lock, and new_ids computed from the copies
QM_Snapshot ==
    /\ qm_pc = "snapshot"
    /\ LockAvailable
    /\ IF last_queued_id < config_end_id
       THEN LET start_id == last_queued_id + 1
                end_id == Min(start_id + QUEUE_BUMP_SIZE - 1, config_end_id)
            IN /\ qm_new_ids' = (start_id..end_id) \ Excluded
               /\ qm_end_id' = end_id
               /\ qm_pc' = "extend"
       ELSE /\ qm_pc' = "check"
            /\ UNCHANGED <<qm_new_ids, qm_end_id>>
    /\ UNCHANGED <<wkvars, config_end_id, rsvars, completed, private, assigned, available_queue, last_queued_id,
                   lock, public_file, private_file, results_file, pc, work_id,
                   epoch, acked, acked_before,
                   response, dispatched, results_exists, fsvars>>

\* a cursor that advances by the number of ids pushed
Mut_CursorAfterRefill_Pushed == last_queued_id + Cardinality(qm_new_ids)

\* the cursor after a refill: self.last_queued_id = end_id
CursorAfterRefill == qm_end_id

\* "with self.lock: available_queue.extend(new_ids); last_queued_id = end_id"
QM_Extend ==
    /\ qm_pc = "extend"
    /\ LockAvailable
    /\ \E order \in Orders(qm_new_ids) :
           available_queue' = available_queue \o order
    /\ last_queued_id' = CursorAfterRefill
    /\ qm_pc' = "check"
    /\ qm_new_ids' = {}
    /\ qm_end_id' = 0
    /\ UNCHANGED <<wkvars, config_end_id, rsvars, completed, private, assigned, lock, public_file, private_file,
                   results_file, pc, work_id, epoch, acked, acked_before,
                   response, dispatched, results_exists, fsvars>>

----------------------------------------------------------------------------
(* GET /work-batch -> WorkManager.get_work_batch *)

\* a batch taken from the tail of the queue
Mut_Pending_FromTail(batch_size) ==
    SubSeq(available_queue,
           Len(available_queue) - Min(batch_size, Len(available_queue)) + 1,
           Len(available_queue))

\* pending: the first min(batch_size, len(queue)) ids of the queue
Pending(batch_size) == SubSeq(available_queue, 1, Min(batch_size, Len(available_queue)))

\* a batch that is read and left on the queue
Mut_Remaining_NoPop(batch_size) == available_queue

\* the queue after the poplefts
Remaining(batch_size) ==
    SubSeq(available_queue, Len(Pending(batch_size)) + 1, Len(available_queue))

GetWorkBatch(batch_size) ==
    /\ pc = "idle"
    /\ LockAvailable
    /\ LET pending == Pending(batch_size)
       IN /\ available_queue' = Remaining(batch_size)
          /\ assigned' = assigned \cup Range(pending)
          /\ dispatched' = dispatched \o pending
    /\ response' = 200
    /\ UNCHANGED <<wkvars, config_end_id, rsvars, completed, private, last_queued_id, lock, public_file,
                   private_file, results_file, pc, work_id, qm_pc, qm_new_ids,
                   qm_end_id, epoch, acked, acked_before,
                   results_exists, fsvars>>

----------------------------------------------------------------------------
(* POST /work-completed -> WorkManager.save_work_data *)

\* the records in the rotated segments results_k.jsonl
RECURSIVE SegmentRecords(_)
SegmentRecords(ks) ==
    IF ks = {} THEN 0
    ELSE LET k == CHOOSE x \in ks : TRUE
         IN Len(segments[k]) + SegmentRecords(ks \ {k})

\* the records written so far, to results.jsonl and to the segments
RecordCount == Len(results_file) + SegmentRecords(DOMAIN segments)

\* the record written to results.jsonl: work_data.model_dump_json(), of
\* which the model keeps the id field (the text the client sent)
JsonRecord(id_text) == [id |-> id_text]

\* save_work_data writing the public.txt line where the record belongs
Mut_SaveResults_MarkerFirst(id_text) ==
    /\ pc = "idle"
    /\ LockAvailable
    /\ RecordCount < MaxResults
    /\ lock' = Handler
    /\ work_id' = ParseInt(id_text)
    /\ public_file' = Append(public_file, FormatInt(ParseInt(id_text)))
    /\ pc' = "save_public"
    /\ results_exists' = TRUE
    /\ UNCHANGED <<wkvars, config_end_id, rsvars, completed, private, assigned, available_queue, last_queued_id,
                   results_file, private_file, qm_pc, qm_new_ids, qm_end_id,
                   epoch, acked, acked_before,
                   response, dispatched, fsvars>>

\* save_work_data writing no record for an id that is already completed
Mut_SaveResults_SkipDuplicate(id_text) ==
    /\ pc = "idle"
    /\ LockAvailable
    /\ RecordCount < MaxResults
    /\ lock' = Handler
    /\ work_id' = ParseInt(id_text)
    /\ results_file' = IF ParseInt(id_text) \in completed THEN results_file
                       ELSE Append(results_file, JsonRecord(id_text))
    /\ pc' = "save_public"
    /\ results_exists' = TRUE
    /\ UNCHANGED <<wkvars, config_end_id, rsvars, completed, private, assigned, available_queue, last_queued_id,
                   public_file, private_file, qm_pc, qm_new_ids, qm_end_id,
                   epoch, acked, acked_before,
                   response, dispatched, fsvars>>

\* lock taken, work_id = int(work_data.id), record appended to results.jsonl
\* and fsync'd
SaveResults(id_text) ==
    /\ pc = "idle"
    /\ LockAvailable
    /\ RecordCount < MaxResults
    /\ lock' = Handler
    /\ work_id' = ParseInt(id_text)
    /\ results_file' = Append(results_file, JsonRecord(id_text))
    /\ pc' = "save_public"
    /\ results_exists' = TRUE
    /\ UNCHANGED <<wkvars, config_end_id, rsvars, completed, private, assigned, available_queue, last_queued_id,
                   public_file, private_file, qm_pc, qm_new_ids, qm_end_id,
                   epoch, acked, acked_before,
                   response, dispatched, fsvars>>

\* the membership test left out
Mut_NotYetCompleted_Always(id) == TRUE

\* "if work_id not in self.completed"
NotYetCompleted(id) == id \notin completed

\* save_work_data with completed.add(work_id) moved before the append to
\* public.txt
Mut_SavePublic_CacheFirst ==
    /\ pc = "save_public"
    /\ lock = Handler
    /\ IF NotYetCompleted(work_id)
       THEN /\ completed' = completed \cup {work_id}
            /\ pc' = "save_commit"
            /\ UNCHANGED <<lock, work_id, acked, response>>
       ELSE /\ pc' = "idle"
            /\ lock' = Free
            /\ work_id' = 0
            /\ acked' = acked \cup {<<"completed", work_id>>}
            /\ response' = 200
            /\ UNCHANGED completed
    /\ UNCHANGED <<wkvars, config_end_id, rsvars, public_file, private, assigned, available_queue, last_queued_id,
                   private_file, results_file, qm_pc, qm_new_ids, qm_end_id,
                   epoch, acked_before,
                   dispatched, results_exists, fsvars>>

\* the test on completed; the id appended to public.txt and fsync'd, or
\* (already completed) the lock released and success returned
SavePublic ==
    /\ pc = "save_public"
    /\ lock = Handler
    /\ IF NotYetCompleted(work_id)
       THEN /\ public_file' = Append(public_file, FormatInt(work_id))
            /\ pc' = "save_commit"
            /\ UNCHANGED <<lock, work_id, acked, response>>
       ELSE /\ pc' = "idle"
            /\ lock' = Free
            /\ work_id' = 0
            /\ acked' = acked \cup {<<"completed", work_id>>}
            /\ response' = 200
            /\ UNCHANGED public_file
    /\ UNCHANGED <<wkvars, config_end_id, rsvars, completed, private, assigned, available_queue, last_queued_id,
                   private_file, results_file, qm_pc, qm_new_ids, qm_end_id,
                   epoch, acked_before,
                   dispatched, results_exists, fsvars>>

\* save_work_data without assigned.discard(work_id)
Mut_SaveCommit_NoDiscard ==
    /\ pc = "save_commit"
    /\ lock = Handler
    /\ completed' = completed \cup {work_id}
    /\ pc' = "idle"
    /\ lock' = Free
    /\ work_id' = 0
    /\ acked' = acked \cup {<<"completed", work_id>>}
    /\ response' = 200
    /\ UNCHANGED <<wkvars, config_end_id, rsvars, private, assigned, available_queue, last_queued_id, public_file,
                   private_file, results_file, qm_pc, qm_new_ids, qm_end_id,
                   epoch, acked_before,
                   dispatched, results_exists, fsvars>>

\* completed.add(work_id); assigned.discard(work_id); lock released; the
\* endpoint answers success
SaveCommit ==
    /\ pc = "save_commit"
    /\ lock = Handler
    /\ completed' = completed \cup {work_id}
    /\ assigned' = assigned \ {work_id}
    /\ pc' = "idle"
    /\ lock' = Free
    /\ work_id' = 0
    /\ acked' = acked \cup {<<"completed", work_id>>}
    /\ response' = 200
    /\ UNCHANGED <<wkvars, config_end_id, rsvars, private, available_queue, last_queued_id, public_file,
                   private_file, results_file, qm_pc, qm_new_ids, qm_end_id,
                   epoch, acked_before,
                   dispatched, results_exists, fsvars>>

----------------------------------------------------------------------------
(* POST /work-private -> WorkManager.mark_private *)

\* the membership test answers "not yet private" for every id
Mut_NotYetPrivate_Always(id) == TRUE

\* "if work_id not in self.private"
NotYetPrivate(id) == id \notin private

\* lock taken; the id appended to private.txt and fsync'd, or (already
\* private) the lock released and success returned
PrivateWrite(id) ==
    /\ pc = "idle"
    /\ LockAvailable
    /\ IF NotYetPrivate(id)
       THEN /\ private_file' = Append(private_file, FormatInt(id))
            /\ pc' = "private_commit"
            /\ lock' = Handler
            /\ work_id' = id
            /\ UNCHANGED <<acked, response>>
       ELSE /\ acked' = acked \cup {<<"private", id>>}
            /\ response' = 200
            /\ UNCHANGED <<private_file, pc, lock, work_id>>
    /\ UNCHANGED <<wkvars, config_end_id, rsvars, completed, private, assigned, available_queue, last_queued_id,
                   public_file, results_file, qm_pc, qm_new_ids, qm_end_id,
                   epoch, acked_before,
                   dispatched, results_exists, fsvars>>

\* private.add(work_id); assigned.discard(work_id); lock released; the
\* endpoint answers success
PrivateCommit ==
    /\ pc = "private_commit"
    /\ lock = Handler
    /\ private' = private \cup {work_id}
    /\ assigned' = assigned \ {work_id}
    /\ pc' = "idle"
    /\ lock' = Free
    /\ work_id' = 0
    /\ acked' = acked \cup {<<"private", work_id>>}
    /\ response' = 200
    /\ UNCHANGED <<wkvars, config_end_id, rsvars, completed, available_queue, last_queued_id, public_file,
                   private_file, results_file, qm_pc, qm_new_ids, qm_end_id,
                   epoch, acked_before,
                   dispatched, results_exists, fsvars>>

----------------------------------------------------------------------------
(* The process is killed at any point and started again: the files stay,   *)
(* Config.__init__ and WorkManager.__init__ run on them.                   *)

Restart ==
    /\ epoch < MaxRestarts
    /\ epoch' = epoch + 1
    /\ completed' = LoadIds(public_file)
    /\ private' = LoadIds(private_file)
    /\ assigned' = {}
    /\ available_queue' = <<>>
    /\ last_queued_id' = NextId(StartId, LoadIds(public_file), LoadIds(private_file)) - 1
    /\ lock' = Free
    /\ pc' = "idle"
    /\ work_id' = 0
    /\ qm_pc' = "check"
    /\ qm_new_ids' = {}
    /\ qm_end_id' = 0
    /\ acked_before' = acked
    /\ response' = 0
    /\ dispatched' = <<>>
    /\ results_exists' = TRUE
    /\ gz_pending' = {}
    /\ rotated_file' = <<>>
    /\ UNCHANGED <<wkvars, config_end_id, rsvars, public_file, private_file, results_file, acked,
                   segments, gz, removed, faults>>

----------------------------------------------------------------------------

Next ==
    \/ QM_Check
    \/ QM_Snapshot
    \/ QM_Extend
    \/ \E n \in 1..MaxBatch : GetWorkBatch(n)
    \/ \E t \in WorkIdTexts : SaveResults(t)
    \/ SavePublic
    \/ SaveCommit
    \/ \E id \in Ids : PrivateWrite(id)
    \/ PrivateCommit
    \/ Restart

Spec == Init /\ [][Next]_vars

(* Fairness: the queue manager thread loops for ever, a handler that holds *)
(* the lock runs to its end, and the workers keep polling /work-batch      *)
(* (worker.py, AO3Scraper.run)                                             *)
FairSpec ==
    /\ Spec
    /\ WF_vars(QM_Check)
    /\ WF_vars(QM_Snapshot)
    /\ WF_vars(QM_Extend)
    /\ WF_vars(SavePublic)
    /\ WF_vars(SaveCommit)
    /\ WF_vars(PrivateCommit)
    /\ WF_vars(\E n \in 1..MaxBatch : GetWorkBatch(n))

----------------------------------------------------------------------------
(* Error paths of the commit endpoints: an id that int() rejects, and an   *)
(* OSError raised by open, write, flush or fsync. The line of a failed     *)
(* append is in the file (the error came after the write) or is not.       *)

\* work_id = int(work_data.id) raises ValueError under the lock, outside
\* the "try ... except OSError"; the lock is released and the endpoint's
\* "except Exception" answers 500
SaveRejected(id_text) ==
    /\ pc = "idle"
    /\ LockAvailable
    /\ ~IsIntText(id_text)
    /\ response' = 500
    /\ UNCHANGED <<wkvars, config_end_id, rsvars, completed, private, assigned, available_queue, last_queued_id,
                   lock, public_file, private_file, results_file, pc, work_id,
                   qm_pc, qm_new_ids, qm_end_id, epoch, acked, acked_before,
                   dispatched, results_exists, fsvars>>

\* sets that count the failed append as done
Mut_SetsAfterFault_Committed ==
    <<completed \cup {work_id}, private, assigned \ {work_id}>>

\* the in-memory sets after a failed append: left as they were
SetsAfterFault == <<completed, private, assigned>>

\* the append to results.jsonl fails: "except OSError" raises, the lock is
\* released, the endpoint answers 500
SaveResultsFault(id_text) ==
    /\ pc = "idle"
    /\ LockAvailable
    /\ faults < MaxFaults
    /\ IsIntText(id_text)
    /\ \/ UNCHANGED <<results_file, results_exists>>
       \/ /\ RecordCount < MaxResults
          /\ results_file' = Append(results_file, JsonRecord(id_text))
          /\ results_exists' = TRUE
    /\ faults' = faults + 1
    /\ response' = 500
    /\ UNCHANGED <<wkvars, config_end_id, rsvars, completed, private, assigned, available_queue, last_queued_id,
                   lock, public_file, private_file, pc, work_id, qm_pc,
                   qm_new_ids, qm_end_id, epoch, acked, acked_before,
                   dispatched, segments, gz, gz_pending, removed,
                   rotated_file>>

\* the append to public.txt fails, after the record was written
SavePublicFault ==
    /\ pc = "save_public"
    /\ lock = Handler
    /\ faults < MaxFaults
    /\ NotYetCompleted(work_id)
    /\ \/ UNCHANGED public_file
       \/ public_file' = Append(public_file, FormatInt(work_id))
    /\ completed' = SetsAfterFault[1]
    /\ private' = SetsAfterFault[2]
    /\ assigned' = SetsAfterFault[3]
    /\ pc' = "idle"
    /\ lock' = Free
    /\ work_id' = 0
    /\ faults' = faults + 1
    /\ response' = 500
    /\ UNCHANGED <<wkvars, config_end_id, rsvars, available_queue, last_queued_id, private_file, results_file,
                   qm_pc, qm_new_ids, qm_end_id, epoch, acked, acked_before,
                   dispatched, results_exists, segments, gz, gz_pending, removed,
                   rotated_file>>

\* the append to private.txt fails: mark_private raises, the lock is
\* released, and the endpoint, which catches nothing, answers 500
PrivateWriteFault(id) ==
    /\ pc = "idle"
    /\ LockAvailable
    /\ faults < MaxFaults
    /\ NotYetPrivate(id)
    /\ \/ UNCHANGED private_file
       \/ private_file' = Append(private_file, FormatInt(id))
    /\ faults' = faults + 1
    /\ response' = 500
    /\ UNCHANGED <<wkvars, config_end_id, rsvars, completed, private, assigned, available_queue, last_queued_id,
                   lock, public_file, results_file, pc, work_id, qm_pc,
                   qm_new_ids, qm_end_id, epoch, acked, acked_before,
                   dispatched, results_exists, segments, gz, gz_pending, removed,
                   rotated_file>>

\* one process of the coordinator (no kill) with malformed submissions and
\* I/O errors
FaultNext ==
    \/ QM_Check
    \/ QM_Snapshot
    \/ QM_Extend
    \/ \E n \in 1..MaxBatch : GetWorkBatch(n)
    \/ \E t \in WorkIdTexts : SaveResults(t)
    \/ SavePublic
    \/ SaveCommit
    \/ \E id \in Ids : PrivateWrite(id)
    \/ PrivateCommit
    \/ \E t \in MalformedTexts : SaveRejected(t)
    \/ \E t \in WorkIdTexts : SaveResultsFault(t)
    \/ SavePublicFault
    \/ \E id \in Ids : PrivateWriteFault(id)

FaultSpec == Init /\ [][FaultNext]_vars

----------------------------------------------------------------------------
(* File names and paths. A name is the sequence of its pieces, so that     *)
(* f"results_{counter}.jsonl", f"{rotated_path}.gz" and endswith('.gz')    *)
(* are computed; a path is the sequence of its components, as pathlib      *)
(* keeps it.                                                               *)

PublicName == <<"public", ".txt">>
PrivateName == <<"private", ".txt">>
ResultsName == <<"results", ".jsonl">>

\* rotated_name = f"results_{counter}.jsonl"
RotatedName(counter) == <<"results_">> \o FormatInt(counter) \o <<".jsonl">>

\* f"{rotated_name}.gz"
GzName(name) == Append(name, ".gz")

Root == <<"/">>
DotDot == <<"..">>
Dot == <<".">>

\* Path(config.output_dir), with the default --output
OutputDir == << <<"output">> >>

RECURSIVE DropDots(_)
DropDots(parts) ==
    IF parts = <<>> THEN <<>>
    ELSE IF parts[1] = Dot THEN DropDots(Tail(parts))
    ELSE <<parts[1]>> \o DropDots(Tail(parts))

\* Path(dir) / filename: an absolute filename replaces dir, "." components
\* are dropped, ".." components are kept
Join(dir, filename) ==
    IF filename # <<>> /\ filename[1] = Root THEN filename
    ELSE dir \o DropDots(filename)

\* Path.parent
Parent(path) == SubSeq(path, 1, Len(path) - 1)

\* filename.endswith('.gz')
EndsWithGz(filename) ==
    /\ filename # <<>>
    /\ LET name == filename[Len(filename)]
       IN name # <<>> /\ name[Len(name)] = ".gz"

\* the file a path leads to when the system follows it: ".." steps back
RECURSIVE Resolve(_)
Resolve(path) ==
    IF path = <<>> THEN <<>>
    ELSE LET front == Resolve(Parent(path))
             last == path[Len(path)]
         IN IF last = DotDot /\ front # <<>> /\ front[Len(front)] # DotDot
                             /\ front[Len(front)] # Root
            THEN Parent(front)
            ELSE Append(front, last)

\* files that are neither logs nor segments: one beside the output
\* directory, one in a sub-directory of it, one elsewhere, and an old
\* archive in the output directory
OtherFiles ==
    { << <<"secret", ".gz">> >>,
      OutputDir \o << <<"sub">>, <<"x", ".gz">> >>,
      << Root, <<"backup", ".gz">> >>,
      OutputDir \o << <<"old", ".gz">> >> }

SegmentPath(k) == Append(OutputDir, RotatedName(k))
GzPath(k) == Append(OutputDir, GzName(RotatedName(k)))

\* the regular files that exist
ExistingFiles ==
    {Append(OutputDir, PublicName), Append(OutputDir, PrivateName)}
    \cup (IF results_exists THEN {Append(OutputDir, ResultsName)} ELSE {})
    \cup {SegmentPath(k) : k \in DOMAIN segments}
    \cup {GzPath(k) : k \in gz}
    \cup (OtherFiles \ removed)

----------------------------------------------------------------------------
(* POST /rotate-file *)

\* rotated_path.exists()
RotatedExists(counter) == counter \in DOMAIN segments

\* a rotation that always takes results_0.jsonl
Mut_NextCounter_Zero(counter) == 0

\* "while True: ... if not rotated_path.exists(): break; counter += 1"
RECURSIVE NextCounter(_)
NextCounter(counter) ==
    IF RotatedExists(counter) THEN NextCounter(counter + 1) ELSE counter

\* a rename that goes through without a results.jsonl
Mut_CanRename_Always == TRUE

\* config.results_file.rename(rotated_path) succeeds when results.jsonl
\* exists
CanRename == results_exists

\* "rotated_file": [rotated_name, rotated_name + ".gz"]
RotateAnswer(counter) == <<RotatedName(counter), GzName(RotatedName(counter))>>

\* the rename done without the lock, at any point of a commit
Mut_RotateFile_Unlocked ==
    /\ LET counter == NextCounter(0)
       IN IF CanRename
          THEN /\ Cardinality(DOMAIN segments) < MaxRotations
               /\ segments' = [k \in DOMAIN segments \cup {counter} |->
                                  IF k = counter THEN results_file ELSE segments[k]]
               /\ results_file' = <<>>
               /\ results_exists' = FALSE
               /\ gz_pending' = gz_pending \cup {counter}
               /\ UNCHANGED response
          ELSE /\ response' = 500
               /\ UNCHANGED <<segments, results_file, results_exists, gz_pending>>
    /\ UNCHANGED <<wkvars, config_end_id, rsvars, completed, private, assigned, available_queue, last_queued_id,
                   lock, public_file, private_file, pc, work_id, qm_pc,
                   qm_new_ids, qm_end_id, epoch, acked, acked_before,
                   dispatched, gz, removed, faults, rotated_file>>

\* the part of the handler under the lock: the free name is found and
\* results.jsonl renamed to it, or the rename raises and the handler
\* answers 500; the lock is released either way
RotateFile ==
    /\ pc = "idle"
    /\ LockAvailable
    /\ LET counter == NextCounter(0)
       IN IF CanRename
          THEN /\ Cardinality(DOMAIN segments) < MaxRotations
               /\ segments' = [k \in DOMAIN segments \cup {counter} |->
                                  IF k = counter THEN results_file ELSE segments[k]]
               /\ results_file' = <<>>
               /\ results_exists' = FALSE
               /\ gz_pending' = gz_pending \cup {counter}
               /\ UNCHANGED response
          ELSE /\ response' = 500
               /\ UNCHANGED <<segments, results_file, results_exists, gz_pending>>
    /\ UNCHANGED <<wkvars, config_end_id, rsvars, completed, private, assigned, available_queue, last_queued_id,
                   lock, public_file, private_file, pc, work_id, qm_pc,
                   qm_new_ids, qm_end_id, epoch, acked, acked_before,
                   dispatched, gz, removed, faults, rotated_file>>

\* after the lock: subprocess.run(['gzip', '-k', rotated_path], check=True)
\* and the answer; gzip refuses to overwrite an existing .gz
Gzip(counter) ==
    /\ counter \in gz_pending
    /\ gz_pending' = gz_pending \ {counter}
    /\ IF counter \in gz
       THEN /\ response' = 500
            /\ UNCHANGED <<gz, rotated_file>>
       ELSE /\ gz' = gz \cup {counter}
            /\ rotated_file' = RotateAnswer(counter)
            /\ response' = 200
    /\ UNCHANGED <<wkvars, config_end_id, rsvars, completed, private, assigned, available_queue, last_queued_id,
                   lock, public_file, private_file, results_file, pc, work_id,
                   qm_pc, qm_new_ids, qm_end_id, epoch, acked, acked_before,
                   dispatched, results_exists, segments, removed, faults>>

\* gzip exits with an error: CalledProcessError, which nothing catches, and
\* the framework answers 500
GzipFault(counter) ==
    /\ counter \in gz_pending
    /\ faults < MaxFaults
    /\ gz_pending' = gz_pending \ {counter}
    /\ faults' = faults + 1
    /\ response' = 500
    /\ UNCHANGED <<wkvars, config_end_id, rsvars, completed, private, assigned, available_queue, last_queued_id,
                   lock, public_file, private_file, results_file, pc, work_id,
                   qm_pc, qm_new_ids, qm_end_id, epoch, acked, acked_before,
                   dispatched, results_exists, segments, gz, removed,
                   rotated_file>>

----------------------------------------------------------------------------
(* POST /cleanup-file *)

\* the filenames asked for: "../secret.gz", "sub/x.gz", "/backup.gz",
\* "old.gz", "sub/../results_0.jsonl.gz", "./results_0.jsonl.gz", the
\* three logs, and every segment with and without ".gz"
CleanupNames ==
    { <<DotDot, <<"secret", ".gz">> >>,
      << <<"sub">>, <<"x", ".gz">> >>,
      << Root, <<"backup", ".gz">> >>,
      << <<"old", ".gz">> >>,
      << <<"sub">>, DotDot, GzName(RotatedName(0)) >>,
      << Dot, GzName(RotatedName(0)) >>,
      <<PublicName>>, <<PrivateName>>, <<ResultsName>> }
    \cup {<<RotatedName(k)>> : k \in 0..(MaxRotations - 1)}
    \cup {<<GzName(RotatedName(k))>> : k \in 0..(MaxRotations - 1)}

\* file_path.exists() and file_path.is_file()
IsFile(path) == Resolve(path) \in ExistingFiles

\* a safety check that looks at the suffix only
Mut_SafeToDelete_GzOnly(filename, file_path) == EndsWithGz(filename)

\* filename.endswith('.gz') and file_path.parent == Path(config.output_dir)
SafeToDelete(filename, file_path) ==
    EndsWithGz(filename) /\ Parent(file_path) = OutputDir

\* an HTTPException raised inside the handler's "try" is caught by its
\* "except Exception" and raised again with status 500
Reraised(status) == 500

\* the handler; it does not take the lock
CleanupFile(filename) ==
    LET file_path == Join(OutputDir, filename)
        target == Resolve(file_path)
    IN /\ IF IsFile(file_path)
          THEN IF SafeToDelete(filename, file_path)
               THEN /\ gz' = {k \in gz : GzPath(k) # target}
                    /\ removed' = IF \E k \in gz : GzPath(k) = target
                                  THEN removed ELSE removed \cup {target}
                    /\ response' = 200
               ELSE /\ response' = Reraised(400)
                    /\ UNCHANGED <<gz, removed>>
          ELSE /\ response' = Reraised(404)
               /\ UNCHANGED <<gz, removed>>
       /\ UNCHANGED <<wkvars, config_end_id, rsvars, completed, private, assigned, available_queue,
                      last_queued_id, lock, public_file, private_file,
                      results_file, pc, work_id, qm_pc, qm_new_ids, qm_end_id,
                      epoch, acked, acked_before, dispatched, results_exists,
                      segments, gz_pending, faults, rotated_file>>

\* the filenames the archive fetcher asks to clean up: the compressed
\* segments it was given by /rotate-file
SegmentArchives == {<<GzName(RotatedName(k))>> : k \in 0..(MaxRotations - 1)}

\* one process of the coordinator with the archive fetcher: the producer,
\* commits to the results log, rotations and the cleanup of archives
RotNext ==
    \/ QM_Check
    \/ QM_Snapshot
    \/ QM_Extend
    \/ \E t \in WorkIdTexts : SaveResults(t)
    \/ SavePublic
    \/ SaveCommit
    \/ RotateFile
    \/ \E k \in gz_pending : Gzip(k)
    \/ \E k \in gz_pending : GzipFault(k)
    \/ \E f \in SegmentArchives : CleanupFile(f)

RotSpec == Init /\ [][RotNext]_vars

\* /cleanup-file asked for any name, among rotations and restarts (a
\* restart creates results.jsonl again, for the next rotation), with the
\* producer running
CleanupNext ==
    \/ QM_Check
    \/ QM_Snapshot
    \/ QM_Extend
    \/ Restart
    \/ RotateFile
    \/ \E k \in gz_pending : Gzip(k)
    \/ \E k \in gz_pending : GzipFault(k)
    \/ \E f \in CleanupNames : CleanupFile(f)

CleanupSpec == Init /\ [][CleanupNext]_vars

\* one process lifetime with every section that runs under the lock: the
\* producer, dispatch, both commits and the rename of a rotation
LockNext ==
    \/ QM_Check
    \/ QM_Snapshot
    \/ QM_Extend
    \/ \E n \in 1..MaxBatch : GetWorkBatch(n)
    \/ \E t \in WorkIdTexts : SaveResults(t)
    \/ SavePublic
    \/ SaveCommit
    \/ \E id \in Ids : PrivateWrite(id)
    \/ PrivateCommit
    \/ RotateFile

LockSpec == Init /\ [][LockNext]_vars

\* one process lifetime of producer, dispatch and /work-private on the
\* longer range
QueueNext ==
    \/ QM_Check
    \/ QM_Snapshot
    \/ QM_Extend
    \/ \E n \in 1..MaxBatch : GetWorkBatch(n)
    \/ \E id \in Ids : PrivateWrite(id)
    \/ PrivateCommit

\* the coordinator started with the longer range
QueueInit == InitWith(WideEndId) /\ die_on_rate_limit = FALSE

QueueSpec == QueueInit /\ [][QueueNext]_vars

----------------------------------------------------------------------------
(* src/worker.py: AO3Scraper, one worker process. What the upstream and    *)
(* the coordinator at server_url answer is the worker's input.             *)

\* what a GET of the download URL comes to: a status code, an exception of
\* requests, or a 200 whose page parse_html raises on
UpstreamAnswers ==
    {"200", "404", "429", "503", "500", "Timeout", "ConnectionError", "Unparsable"}

\* the batches a coordinator answers a batch request with
Batches ==
    {b \in UNION {[1..n -> Ids] : n \in 0..MaxBatch} :
        \A i, j \in 1..Len(b) : b[i] = b[j] => i = j}

\* the exception raised inside the try block of fetch_work, if any
Raised(answer) ==
    CASE answer = "Timeout" -> "Timeout"
      [] answer = "ConnectionError" -> "ConnectionError"
      [] answer \in {"429", "503"} /\ die_on_rate_limit -> "RateLimitException"
      [] answer = "Unparsable" -> "Exception"
      [] OTHER -> "none"

\* "class RateLimitException(Exception)", and the exceptions of requests,
\* which derive from Exception as well
Superclasses(cls) == {cls, "Exception"}

\* the except clauses of fetch_work, in order
ExceptClauses == <<"Timeout", "ConnectionError", "Exception">>

\* the exception is caught by a clause of fetch_work
Caught(exc) == \E i \in 1..Len(ExceptClauses) : ExceptClauses[i] \in Superclasses(exc)

\* a fetch_work that takes every status but 200 as "not found"
Mut_FetchWork_NotFoundUnless200(answer) ==
    IF answer = "200" THEN "data" ELSE "None"

\* one turn of the "while True" of fetch_work: the function returns None,
\* returns the work's data, goes round again, or lets the exception out
FetchWork(answer) ==
    IF Raised(answer) # "none"
    THEN IF Caught(Raised(answer)) THEN "retry" ELSE "raise"
    ELSE IF answer \in {"429", "503"} THEN "retry"
    ELSE IF answer = "404" THEN "None"
    ELSE IF answer # "200" THEN "retry"
    ELSE "data"

\* unprocessed = [wid for wid in self.current_batch if wid not in self.processed_ids]
Unprocessed == SelectSeq(current_batch, LAMBDA wid : wid \notin processed_ids)

\* get_work_batch and what run does with its result: the request fails and
\* [] is returned (current_batch stays), or the batch becomes current_batch;
\* on an empty list run sleeps and asks again
W_GetWorkBatch(ok, batch) ==
    /\ w_pc = "get_batch"
    /\ IF ok
       THEN /\ current_batch' = batch
            /\ submitted' = <<>>
            /\ IF batch # <<>>
               THEN /\ w_pc' = "fetch"
                    /\ w_index' = 1
               ELSE UNCHANGED <<w_pc, w_index>>
       ELSE UNCHANGED <<current_batch, submitted, w_pc, w_index>>
    /\ UNCHANGED <<die_on_rate_limit, processed_ids, w_answer, w_failed, w_faults,
                   w_retries, returned_work>>
    /\ UNCHANGED <<config_end_id, rsvars, fsvars, completed, private, assigned,
                   available_queue, last_queued_id, lock, public_file, private_file,
                   results_file, pc, work_id, qm_pc, qm_new_ids, qm_end_id, epoch,
                   acked, acked_before, response, dispatched, results_exists>>

\* one request of fetch_work for the id at hand; an exception that
\* fetch_work let out would reach "except RateLimitException" of run:
\* return_unprocessed_work, then the worker returns
W_Fetch(answer) ==
    /\ w_pc = "fetch"
    /\ w_answer' = answer
    /\ CASE FetchWork(answer) = "retry" ->
              /\ w_retries < MaxRetries
              /\ w_retries' = w_retries + 1
              /\ UNCHANGED <<w_pc, returned_work>>
         [] FetchWork(answer) = "None" ->
              /\ w_pc' = "submit_private"
              /\ UNCHANGED <<w_retries, returned_work>>
         [] FetchWork(answer) = "data" ->
              /\ w_pc' = "submit_completed"
              /\ UNCHANGED <<w_retries, returned_work>>
         [] OTHER ->
              /\ w_pc' = "exited"
              /\ returned_work' = IF Unprocessed = <<>> THEN <<>> ELSE <<Unprocessed>>
              /\ UNCHANGED w_retries
    /\ UNCHANGED <<die_on_rate_limit, current_batch, processed_ids, w_index,
                   submitted, w_failed, w_faults>>
    /\ UNCHANGED <<config_end_id, rsvars, fsvars, completed, private, assigned,
                   available_queue, last_queued_id, lock, public_file, private_file,
                   results_file, pc, work_id, qm_pc, qm_new_ids, qm_end_id, epoch,
                   acked, acked_before, response, dispatched, results_exists>>

\* run after a submission, whatever it returned: the next id of the batch,
\* or the next batch
AfterSubmit(ok) ==
    IF w_index < Len(current_batch)
    THEN [pc |-> "fetch", index |-> w_index + 1]
    ELSE [pc |-> "get_batch", index |-> 0]

\* submit_private_work(work_id): processed_ids.add on success, False on any
\* exception; run does not look at the result
W_SubmitPrivate(ok) ==
    /\ w_pc = "submit_private"
    /\ ok \/ w_faults < MaxFaults
    /\ submitted' = Append(submitted, [endpoint |-> "/work-private",
                                       id |-> current_batch[w_index],
                                       answer |-> w_answer])
    /\ IF ok
       THEN /\ processed_ids' = processed_ids \cup {current_batch[w_index]}
            /\ UNCHANGED <<w_failed, w_faults>>
       ELSE /\ w_failed' = w_failed \cup {current_batch[w_index]}
            /\ w_faults' = w_faults + 1
            /\ UNCHANGED processed_ids
    /\ w_pc' = AfterSubmit(ok).pc
    /\ w_index' = AfterSubmit(ok).index
    /\ w_answer' = ""
    /\ w_retries' = 0
    /\ UNCHANGED <<die_on_rate_limit, current_batch, returned_work>>
    /\ UNCHANGED <<config_end_id, rsvars, fsvars, completed, private, assigned,
                   available_queue, last_queued_id, lock, public_file, private_file,
                   results_file, pc, work_id, qm_pc, qm_new_ids, qm_end_id, epoch,
                   acked, acked_before, response, dispatched, results_exists>>

\* submit_completed_work(work_data): processed_ids.add(int(work_data['id']))
\* on success, False on any exception; on False run prints "will retry
\* later" and goes on
W_SubmitCompleted(ok) ==
    /\ w_pc = "submit_completed"
    /\ ok \/ w_faults < MaxFaults
    /\ submitted' = Append(submitted, [endpoint |-> "/work-completed",
                                       id |-> current_batch[w_index],
                                       answer |-> w_answer])
    /\ IF ok
       THEN /\ processed_ids' = processed_ids \cup {ParseInt(FormatInt(current_batch[w_index]))}
            /\ UNCHANGED <<w_failed, w_faults>>
       ELSE /\ w_failed' = w_failed \cup {current_batch[w_index]}
            /\ w_faults' = w_faults + 1
            /\ UNCHANGED processed_ids
    /\ w_pc' = AfterSubmit(ok).pc
    /\ w_index' = AfterSubmit(ok).index
    /\ w_answer' = ""
    /\ w_retries' = 0
    /\ UNCHANGED <<die_on_rate_limit, current_batch, returned_work>>
    /\ UNCHANGED <<config_end_id, rsvars, fsvars, completed, private, assigned,
                   available_queue, last_queued_id, lock, public_file, private_file,
                   results_file, pc, work_id, qm_pc, qm_new_ids, qm_end_id, epoch,
                   acked, acked_before, response, dispatched, results_exists>>

\* the worker started with or without --die-on-rate-limit
WorkerInit == InitWith(EndId) /\ die_on_rate_limit \in BOOLEAN

WorkerNext ==
    \/ \E ok \in BOOLEAN, batch \in Batches : W_GetWorkBatch(ok, batch)
    \/ \E answer \in UpstreamAnswers : W_Fetch(answer)
    \/ \E ok \in BOOLEAN : W_SubmitPrivate(ok)
    \/ \E ok \in BOOLEAN : W_SubmitCompleted(ok)

WorkerSpec == WorkerInit /\ [][WorkerNext]_vars

(* Fairness: run loops for ever, and every request it makes is answered    *)
(* or times out                                                            *)
FairWorkerSpec ==
    /\ WorkerSpec
    /\ WF_vars(\E ok \in BOOLEAN, batch \in Batches : W_GetWorkBatch(ok, batch))
    /\ WF_vars(\E answer \in UpstreamAnswers : W_Fetch(answer))
    /\ WF_vars(\E ok \in BOOLEAN : W_SubmitPrivate(ok))
    /\ WF_vars(\E ok \in BOOLEAN : W_SubmitCompleted(ok))

----------------------------------------------------------------------------
(* src/rangeset.py: RangeSet, a set of integers kept as a sorted list of   *)
(* (start, end) ranges. Python's 0-based ranges[i] is ranges[i + 1] here.  *)

\* the integers given to the RangeSet
RsValues == 1..MaxValue

\* the lists given to from_values: any order, with duplicates
Lists == UNION {[1..n -> RsValues] : n \in 0..MaxLen}

\* the arguments of filter_range and the values looked up: RsValues and one
\* integer on each side
Probes == 0..(MaxValue + 1)

\* range(a, b) as a list
PyRange(a, b) == [k \in 1..(b - a) |-> a + k - 1]

Max(a, b) == IF a >= b THEN a ELSE b

\* sorted(set(values))
RECURSIVE Sorted(_)
Sorted(S) ==
    IF S = {} THEN <<>>
    ELSE LET m == CHOOSE x \in S : \A y \in S : x <= y
         IN <<m>> \o Sorted(S \ {m})

\* from_values without sorted(set(...)): the values taken as they come
Mut_SortedValues_AsGiven(values) == values

\* "sorted_values = sorted(set(values))"
SortedValues(values) == Sorted(Range(values))

\* the loop of from_values over sorted_values[1:], and the last append
RECURSIVE FromSorted(_, _, _, _, _)
FromSorted(sorted_values, i, start, end, acc) ==
    IF i > Len(sorted_values) THEN Append(acc, <<start, end>>)
    ELSE LET val == sorted_values[i]
         IN IF val = end + 1
            THEN FromSorted(sorted_values, i + 1, start, val, acc)
            ELSE FromSorted(sorted_values, i + 1, val, val, Append(acc, <<start, end>>))

\* RangeSet.from_values(values).ranges
FromValues(values) ==
    IF values = <<>> THEN <<>>
    ELSE LET sorted_values == SortedValues(values)
         IN FromSorted(sorted_values, 2, sorted_values[1], sorted_values[1], <<>>)

\* the binary search of add and filter_range: the first index whose range
\* ends at value or later
RECURSIVE SearchEnd(_, _, _, _)
SearchEnd(rs, value, left, right) ==
    IF left < right
    THEN LET mid == (left + right) \div 2
         IN IF rs[mid + 1][2] < value
            THEN SearchEnd(rs, value, mid + 1, right)
            ELSE SearchEnd(rs, value, left, mid)
    ELSE left

\* add that inserts (value, value) without looking at the neighbours
Mut_Add_NoMerge(rs, value) ==
    IF rs = <<>> THEN << <<value, value>> >>
    ELSE LET left == SearchEnd(rs, value, 0, Len(rs))
             n == Len(rs)
         IN IF left < n /\ rs[left + 1][1] <= value /\ value <= rs[left + 1][2]
            THEN rs
            ELSE SubSeq(rs, 1, left) \o << <<value, value>> >> \o SubSeq(rs, left + 1, n)

\* add without the test "already present"
Mut_Add_NoPresentTest(rs, value) ==
    IF rs = <<>> THEN << <<value, value>> >>
    ELSE LET left == SearchEnd(rs, value, 0, Len(rs))
             n == Len(rs)
             can_merge_prev == left > 0 /\ rs[left][2] + 1 = value
             can_merge_next == left < n /\ rs[left + 1][1] - 1 = value
         IN IF can_merge_prev /\ can_merge_next
            THEN SubSeq(rs, 1, left - 1)
                     \o << <<rs[left][1], rs[left + 1][2]>> >>
                     \o SubSeq(rs, left + 2, n)
            ELSE IF can_merge_prev
            THEN [rs EXCEPT ![left] = <<rs[left][1], value>>]
            ELSE IF can_merge_next
            THEN [rs EXCEPT ![left + 1] = <<value, rs[left + 1][2]>>]
            ELSE SubSeq(rs, 1, left) \o << <<value, value>> >> \o SubSeq(rs, left + 1, n)

\* add(value): the ranges afterwards
Add(rs, value) ==
    IF rs = <<>> THEN << <<value, value>> >>
    ELSE LET left == SearchEnd(rs, value, 0, Len(rs))
             n == Len(rs)
             can_merge_prev == left > 0 /\ rs[left][2] + 1 = value
             can_merge_next == left < n /\ rs[left + 1][1] - 1 = value
         IN IF left < n /\ rs[left + 1][1] <= value /\ value <= rs[left + 1][2]
            THEN rs
            ELSE IF can_merge_prev /\ can_merge_next
            THEN SubSeq(rs, 1, left - 1)
                     \o << <<rs[left][1], rs[left + 1][2]>> >>
                     \o SubSeq(rs, left + 2, n)
            ELSE IF can_merge_prev
            THEN [rs EXCEPT ![left] = <<rs[left][1], value>>]
            ELSE IF can_merge_next
            THEN [rs EXCEPT ![left + 1] = <<value, rs[left + 1][2]>>]
            ELSE SubSeq(rs, 1, left) \o << <<value, value>> >> \o SubSeq(rs, left + 1, n)

\* the binary search of __contains__
RECURSIVE ContainsFrom(_, _, _, _)
ContainsFrom(rs, value, left, right) ==
    IF left < right
    THEN LET mid == (left + right) \div 2
             start == rs[mid + 1][1]
             end == rs[mid + 1][2]
         IN IF value < start THEN ContainsFrom(rs, value, left, mid)
            ELSE IF value > end THEN ContainsFrom(rs, value, mid + 1, right)
            ELSE TRUE
    ELSE FALSE

\* "value in rs"
Contains(rs, value) == ContainsFrom(rs, value, 0, Len(rs))

\* len(rs)
RECURSIVE RsLen(_)
RsLen(rs) ==
    IF rs = <<>> THEN 0
    ELSE (rs[1][2] - rs[1][1] + 1) + RsLen(Tail(rs))

\* _add_range that appends whatever the last range is
Mut_AddRange_Append(rs, new_range) == Append(rs, new_range)

\* _add_range(new_range): merged into the last range when it overlaps or
\* touches it, appended otherwise
AddRange(rs, new_range) ==
    IF rs = <<>> THEN Append(rs, new_range)
    ELSE LET last_start == rs[Len(rs)][1]
             last_end == rs[Len(rs)][2]
             new_start == new_range[1]
             new_end == new_range[2]
         IN IF new_start <= last_end + 1
            THEN [rs EXCEPT ![Len(rs)] = <<last_start, Max(last_end, new_end)>>]
            ELSE Append(rs, new_range)

\* the loop of __or__ over two range lists; i and j count the ranges taken
RECURSIVE OrLoop(_, _, _, _, _)
OrLoop(self, other, i, j, result) ==
    IF i < Len(self) \/ j < Len(other)
    THEN IF i >= Len(self)
         THEN OrLoop(self, other, i, j + 1, AddRange(result, other[j + 1]))
         ELSE IF j >= Len(other)
         THEN OrLoop(self, other, i + 1, j, AddRange(result, self[i + 1]))
         ELSE IF self[i + 1][1] <= other[j + 1][1]
         THEN OrLoop(self, other, i + 1, j, AddRange(result, self[i + 1]))
         ELSE OrLoop(self, other, i, j + 1, AddRange(result, other[j + 1]))
    ELSE result

\* (self | other).ranges for a RangeSet other
Or(self, other) == OrLoop(self, other, 0, 0, <<>>)

\* (self | other).ranges for a plain set other, iterated in the order
\* given: a copy of self.ranges, then add(val) for every val
RECURSIVE OrValues(_, _)
OrValues(self, order) ==
    IF order = <<>> THEN self
    ELSE OrValues(Add(self, order[1]), Tail(order))

\* filter_range that leaves out the values after the last range
Mut_Remainder_None(current, end) == <<>>

\* "if current <= end: result.extend(range(current, end + 1))"
Remainder(current, end) == IF current <= end THEN PyRange(current, end + 1) ELSE <<>>

\* the loop of filter_range from range i on, and what follows it
RECURSIVE FilterLoop(_, _, _, _, _)
FilterLoop(rs, end, i, current, result) ==
    IF i >= Len(rs) \/ rs[i + 1][1] > end
    THEN result \o Remainder(current, end)
    ELSE LET range_start == rs[i + 1][1]
             range_end == rs[i + 1][2]
         IN FilterLoop(rs, end, i + 1, Max(current, range_end + 1),
                       IF current < range_start
                       THEN result \o PyRange(current, Min(range_start, end + 1))
                       ELSE result)

\* filter_range(start, end)
FilterRange(rs, start, end) ==
    FilterLoop(rs, end, SearchEnd(rs, start, 0, Len(rs)), start, <<>>)

\* discard that takes the whole range out
Mut_DiscardAt_WholeRange(rs, mid, value) ==
    SubSeq(rs, 1, mid) \o SubSeq(rs, mid + 2, Len(rs))

\* discard, once the range that holds value is found at index mid
DiscardAt(rs, mid, value) ==
    LET start == rs[mid + 1][1]
        end == rs[mid + 1][2]
    IN IF start = end
       THEN SubSeq(rs, 1, mid) \o SubSeq(rs, mid + 2, Len(rs))
       ELSE IF value = start THEN [rs EXCEPT ![mid + 1] = <<start + 1, end>>]
       ELSE IF value = end THEN [rs EXCEPT ![mid + 1] = <<start, end - 1>>]
       ELSE SubSeq(rs, 1, mid)
                \o << <<start, value - 1>>, <<value + 1, end>> >>
                \o SubSeq(rs, mid + 2, Len(rs))

\* the binary search of discard
RECURSIVE DiscardFrom(_, _, _, _)
DiscardFrom(rs, value, left, right) ==
    IF left < right
    THEN LET mid == (left + right) \div 2
         IN IF value < rs[mid + 1][1] THEN DiscardFrom(rs, value, left, mid)
            ELSE IF value > rs[mid + 1][2] THEN DiscardFrom(rs, value, mid + 1, right)
            ELSE DiscardAt(rs, mid, value)
    ELSE rs

\* discard(value): the ranges afterwards
Discard(rs, value) == DiscardFrom(rs, value, 0, Len(rs))

\* the loop of pop_front: the ranges left and the values taken
RECURSIVE PopLoop(_, _, _)
PopLoop(rs, count, result) ==
    IF Len(result) < count /\ rs # <<>>
    THEN LET start == rs[1][1]
             end == rs[1][2]
             available == Min(count - Len(result), end - start + 1)
         IN PopLoop(IF available = end - start + 1
                    THEN Tail(rs)
                    ELSE [rs EXCEPT ![1] = <<start + available, end>>],
                    count,
                    result \o PyRange(start, start + available))
    ELSE [ranges |-> rs, result |-> result]

\* pop_front(count)
PopFront(rs, count) == PopLoop(rs, count, <<>>)

\* the plain sets that are the other operand of a union, each in every
\* order its iteration can take
IterationOrders ==
    {order \in Lists : \A i, j \in 1..Len(order) : order[i] = order[j] => i = j}

\* the RangeSets that are the other operand of a union
Operands == {FromValues(values) : values \in Lists}

\* rs = RangeSet.from_values(values): a new object
RS_FromValues(values) ==
    /\ ranges = <<>>
    /\ returned = <<>>
    /\ ranges' = FromValues(values)
    /\ rs_values' = <<values>>
    /\ UNCHANGED <<wkvars, config_end_id, returned, completed, private, assigned, available_queue,
                   last_queued_id, lock, public_file, private_file,
                   results_file, pc, work_id, qm_pc, qm_new_ids, qm_end_id,
                   epoch, acked, acked_before, response, dispatched,
                   results_exists, fsvars>>

\* rs.add(value)
RS_Add(value) ==
    /\ ranges' = Add(ranges, value)
    /\ rs_values' = <<>>
    /\ returned' = <<>>
    /\ UNCHANGED <<wkvars, config_end_id, completed, private, assigned, available_queue,
                   last_queued_id, lock, public_file, private_file,
                   results_file, pc, work_id, qm_pc, qm_new_ids, qm_end_id,
                   epoch, acked, acked_before, response, dispatched,
                   results_exists, fsvars>>

\* rs.discard(value)
RS_Discard(value) ==
    /\ ranges' = Discard(ranges, value)
    /\ rs_values' = <<>>
    /\ returned' = <<>>
    /\ UNCHANGED <<wkvars, config_end_id, completed, private, assigned, available_queue,
                   last_queued_id, lock, public_file, private_file,
                   results_file, pc, work_id, qm_pc, qm_new_ids, qm_end_id,
                   epoch, acked, acked_before, response, dispatched,
                   results_exists, fsvars>>

\* rs = rs | other, for a RangeSet other
RS_Or(other) ==
    /\ ranges' = Or(ranges, other)
    /\ rs_values' = <<>>
    /\ returned' = <<>>
    /\ UNCHANGED <<wkvars, config_end_id, completed, private, assigned, available_queue,
                   last_queued_id, lock, public_file, private_file,
                   results_file, pc, work_id, qm_pc, qm_new_ids, qm_end_id,
                   epoch, acked, acked_before, response, dispatched,
                   results_exists, fsvars>>

\* rs = rs | other, for a plain set other iterated in the order given
RS_OrValues(order) ==
    /\ ranges' = OrValues(ranges, order)
    /\ rs_values' = <<>>
    /\ returned' = <<>>
    /\ UNCHANGED <<wkvars, config_end_id, completed, private, assigned, available_queue,
                   last_queued_id, lock, public_file, private_file,
                   results_file, pc, work_id, qm_pc, qm_new_ids, qm_end_id,
                   epoch, acked, acked_before, response, dispatched,
                   results_exists, fsvars>>

\* rs.pop_front(count)
RS_PopFront(count) ==
    /\ ranges' = PopFront(ranges, count).ranges
    /\ rs_values' = <<>>
    /\ returned' = PopFront(ranges, count).result
    /\ UNCHANGED <<wkvars, config_end_id, completed, private, assigned, available_queue,
                   last_queued_id, lock, public_file, private_file,
                   results_file, pc, work_id, qm_pc, qm_new_ids, qm_end_id,
                   epoch, acked, acked_before, response, dispatched,
                   results_exists, fsvars>>

\* rs.filter_range(start, end)
RS_FilterRange(start, end) ==
    /\ returned' = FilterRange(ranges, start, end)
    /\ rs_values' = <<>>
    /\ UNCHANGED <<wkvars, config_end_id, ranges, completed, private, assigned, available_queue,
                   last_queued_id, lock, public_file, private_file,
                   results_file, pc, work_id, qm_pc, qm_new_ids, qm_end_id,
                   epoch, acked, acked_before, response, dispatched,
                   results_exists, fsvars>>

\* a RangeSet built from a list and then used: any sequence of calls
RangeSetNext ==
    \/ \E values \in Lists : RS_FromValues(values)
    \/ \E value \in RsValues : RS_Add(value)
    \/ \E value \in RsValues : RS_Discard(value)
    \/ \E other \in Operands : RS_Or(other)
    \/ \E order \in IterationOrders : RS_OrValues(order)
    \/ \E count \in 0..MaxValue : RS_PopFront(count)
    \/ \E start, end \in Probes : RS_FilterRange(start, end)

RangeSetSpec == Init /\ [][RangeSetNext]_vars

----------------------------------------------------------------------------
(* GET /progress *)

ProgressCounts ==
    [completed |-> Cardinality(completed), private |-> Cardinality(private)]

----------------------------------------------------------------------------
(* What the files say about an id *)

\* the lines of public.txt that read as id
PublicLines(id) ==
    {i \in 1..Len(public_file) : IsIntText(public_file[i]) /\ ParseInt(public_file[i]) = id}

\* the records of the results log whose id field reads as id
ResultRecords(id) ==
    {j \in 1..Len(results_file) :
        IsIntText(results_file[j].id) /\ ParseInt(results_file[j].id) = id}

\* the lines of private.txt that read as id
PrivateLines(id) ==
    {i \in 1..Len(private_file) : IsIntText(private_file[i]) /\ ParseInt(private_file[i]) = id}

Done == completed \cup private

----------------------------------------------------------------------------
(* Claims *)

\* C1: order of durability. In every reachable state, a kill inside
\* save_work_data and the recovery that follows included, every id that
\* public.txt (or the completed set) holds has a record in the results log:
\* never a membership marker without its payload.
C1_MarkerHasPayload ==
    /\ \A i \in 1..Len(public_file) :
          \E j \in 1..Len(results_file) :
              ParseInt(results_file[j].id) = ParseInt(public_file[i])
    /\ \A id \in completed :
          \E j \in 1..Len(results_file) : ParseInt(results_file[j].id) = id

\* after a kill between the two appends and a restart: a payload without a
\* marker, beside an id that has both
C1_Witness ==
    /\ epoch >= 1
    /\ lock = Free
    /\ \E id \in Ids : ResultRecords(id) # {} /\ PublicLines(id) = {}
    /\ \E id \in Ids : ResultRecords(id) # {} /\ PublicLines(id) # {}

C3_NoRedispatchAfterRestart ==
    \A a \in acked_before :
        /\ \A i \in 1..Len(available_queue) : available_queue[i] # a[2]
        /\ a[2] \notin qm_new_ids
        /\ a[2] \notin assigned

\* a batch handed out after a restart that followed a completed and a
\* private submission
C3_Witness ==
    /\ \E a \in acked_before : a[1] = "completed"
    /\ \E a \in acked_before : a[1] = "private"
    /\ assigned # {}

\* C4: persistence round trip. A restart with no commit in flight rebuilds
\* completed and private equal to the sets held in memory before it, so
\* /progress reports the same counts.
C4_PersistenceRoundTrip ==
    [][(epoch' # epoch /\ lock = Free) =>
          /\ completed' = completed
          /\ private' = private
          /\ ProgressCounts' = ProgressCounts]_vars

\* a fresh process that recovered a completed and a private id, each one
\* acknowledged before the restart
C4_Witness ==
    /\ epoch >= 1
    /\ available_queue = <<>>
    /\ assigned = {}
    /\ completed # {}
    /\ private # {}
    /\ completed = {a[2] : a \in {b \in acked_before : b[1] = "completed"}}
    /\ private = {a[2] : a \in {b \in acked_before : b[1] = "private"}}

C6_AssignedDisjoint == assigned \cap Done = {}

\* C6, amended: assigned meets completed or private only through dispatch.
\* A step adds an id to the overlap only by adding it to assigned (get_batch
\* handing out a stale id of the queue); a commit that adds an id to
\* completed or private takes it out of assigned.
C6_OverlapOnlyByDispatch ==
    [][((assigned' \cap (completed' \cup private')) \ (assigned \cap Done))
          \subseteq (assigned' \ assigned)]_vars

\* a stale id handed out: in assigned and completed at once
C6_Witness == lock = Free /\ assigned \cap completed # {}

\* C7: no id is both in public.txt and in private.txt
C7_FilesDisjoint == LoadIds(public_file) \cap LoadIds(private_file) = {}

\* C8 as stated: at the push, no pushed id is completed, private or assigned
C8_FreshAtPush ==
    [][(qm_pc = "extend" /\ qm_pc' = "check" /\ epoch' = epoch) =>
          qm_new_ids \cap (completed \cup private \cup assigned) = {}]_vars

\* C8, amended: the ids the queue manager pushes were in none of completed,
\* private and assigned when it took its snapshot under the lock; at the
\* push they are not in assigned and not on the queue already (they may
\* have become completed or private since the snapshot).
C8_FreshAtSnapshot ==
    /\ [][(qm_pc = "snapshot" /\ qm_pc' = "extend") =>
            qm_new_ids' \cap (completed \cup private \cup assigned) = {}]_vars
    /\ [][(qm_pc = "extend" /\ qm_pc' = "check" /\ epoch' = epoch) =>
            qm_new_ids \cap (assigned \cup Range(available_queue)) = {}]_vars

\* the queue manager about to push an id that was committed after its
\* snapshot
C8_Witness == qm_pc = "extend" /\ qm_new_ids \cap Done # {}

C13_BatchIsQueueHead ==
    [][\A n \in 1..MaxBatch :
          GetWorkBatch(n) =>
              LET k == IF n <= Len(available_queue) THEN n ELSE Len(available_queue)
              IN /\ Len(dispatched') = Len(dispatched) + k
                 /\ \A i \in 1..Len(dispatched) : dispatched'[i] = dispatched[i]
                 /\ \A i \in 1..k : dispatched'[Len(dispatched) + i] = available_queue[i]
                 /\ Len(available_queue') = Len(available_queue) - k
                 /\ \A i \in 1..Len(available_queue') :
                        available_queue'[i] = available_queue[k + i]
                 /\ assigned' = assigned \cup {available_queue[i] : i \in 1..k}
                 /\ (available_queue = <<>> => dispatched' = dispatched)
                 /\ response' = 200]_vars

\* a short batch (one id returned to a request for more), with the rest of
\* an earlier queue handed out before it
C13_Witness ==
    /\ Len(dispatched) = 3
    /\ available_queue = <<>>
    /\ assigned = Range(dispatched)
    /\ response = 200

\* C14: the ids are dispatched in ascending order, inside a batch and from
\* one batch to the next
C14_AscendingDispatch ==
    \A i, j \in 1..Len(dispatched) : i < j => dispatched[i] < dispatched[j]

\* C15: in one process no id is returned by two get_batch calls (nor twice
\* by one), so an id that stays in assigned is not dispatched again before
\* a restart.
C15_DispatchedOnce ==
    /\ \A i, j \in 1..Len(dispatched) : dispatched[i] = dispatched[j] => i = j
    /\ \A i \in 1..Len(available_queue) :
          /\ available_queue[i] \notin Range(dispatched)
          /\ \A j \in 1..Len(available_queue) :
                 available_queue[i] = available_queue[j] => i = j

\* every id dispatched, one of them still assigned and never submitted,
\* the others committed, and the producer at the end of the range
C15_Witness ==
    /\ Len(dispatched) = 3
    /\ last_queued_id = EndId
    /\ Cardinality(assigned) = 1
    /\ assigned \cap Done = {}
    /\ Cardinality(Done) = 2
    /\ response = 200

\* C20: once the cursor has reached end_id the producer has no refill in
\* hand, and once the queue is empty as well it stays empty, the cursor
\* stays, and get_batch returns nothing, until the process restarts.
C20_Termination ==
    /\ [](last_queued_id >= EndId => qm_pc = "check" /\ qm_new_ids = {})
    /\ [][(last_queued_id >= EndId /\ available_queue = <<>> /\ epoch' = epoch) =>
            /\ available_queue' = <<>>
            /\ last_queued_id' = last_queued_id
            /\ dispatched' = dispatched]_vars

\* the range exhausted with one batch handed out, and its ids committed
\* after it
C20_Witness ==
    /\ last_queued_id >= EndId
    /\ available_queue = <<>>
    /\ dispatched # <<>>
    /\ Range(dispatched) \subseteq Done
    /\ response = 200

\* C11: a commit whose append or fsync to results.jsonl, public.txt or
\* private.txt raises an I/O error is answered 500 and leaves completed,
\* private and assigned as they were (an assigned id stays assigned); the
\* lock is released and no success is recorded.
C11_FaultLeavesSets ==
    [][faults' # faults =>
          /\ response' = 500
          /\ completed' = completed
          /\ private' = private
          /\ assigned' = assigned
          /\ acked' = acked
          /\ lock' = Free
          /\ pc' = "idle"]_vars

\* the public.txt append of an assigned id failed after its record was
\* written: answered 500, the id still assigned and not completed
C11_Witness ==
    /\ faults >= 1
    /\ response = 500
    /\ lock = Free
    /\ \E id \in assigned :
          id \notin Done /\ ResultRecords(id) # {} /\ <<"completed", id>> \notin acked

\* C12 as stated: a /work-completed whose id is not an integer is answered
\* 400; nothing is written, no set changes, the lock is free afterwards
C12_Rejected400 ==
    [][\A t \in MalformedTexts :
          SaveRejected(t) =>
              /\ response' = 400
              /\ results_file' = results_file
              /\ public_file' = public_file
              /\ completed' = completed
              /\ private' = private
              /\ assigned' = assigned
              /\ lock' = Free]_vars

\* C16: /cleanup-file removes the file it is asked for exactly when that
\* file exists, the name given ends in .gz and the parent of the path built
\* from it is the output directory; it removes nothing else, so every file
\* it removes is a .gz directly in the output directory, and the logs, the
\* uncompressed segments and the files outside stay, with their contents.
C16_CleanupFrame ==
    [][LET before == ExistingFiles
           after == ExistingFiles'
           gone == before \ after
       IN \A f \in CleanupNames :
             CleanupFile(f) =>
                 LET file_path == Join(OutputDir, f)
                     target == Resolve(file_path)
                 IN /\ after \subseteq before
                    /\ gone = IF /\ target \in before
                                 /\ EndsWithGz(f)
                                 /\ Parent(file_path) = OutputDir
                              THEN {target} ELSE {}
                    /\ \A path \in gone :
                           /\ Len(path) = Len(OutputDir) + 1
                           /\ SubSeq(path, 1, Len(OutputDir)) = OutputDir
                           /\ path[Len(path)][Len(path[Len(path)])] = ".gz"
                    /\ public_file' = public_file
                    /\ private_file' = private_file
                    /\ results_file' = results_file
                    /\ segments' = segments]_vars

\* an archive of a segment and the old archive removed, a second archive
\* and everything else still there
C16_Witness ==
    /\ removed = {Append(OutputDir, <<"old", ".gz">>)}
    /\ \E k \in DOMAIN segments : k \notin gz /\ k \notin gz_pending
    /\ gz # {}

\* C17 as stated: /cleanup-file answers 400 for an existing file whose name
\* leaves the output directory or does not end in .gz, and 200, with the
\* file removed, for an existing .gz segment of the output directory
C17_Refused400 ==
    [][\A f \in CleanupNames :
          (CleanupFile(f) /\ Resolve(Join(OutputDir, f)) \in ExistingFiles) =>
              IF EndsWithGz(f) /\ Parent(Join(OutputDir, f)) = OutputDir
              THEN /\ response' = 200
                   /\ Resolve(Join(OutputDir, f)) \notin ExistingFiles'
              ELSE response' = 400]_vars

\* C18: a rotation renames results.jsonl to results_k.jsonl for the least
\* k >= 0 that names no existing segment: the segment is new, it holds the
\* records of results.jsonl, the segments there were are untouched and
\* results.jsonl is gone; the handler then compresses it and answers with
\* the names results_k.jsonl and results_k.jsonl.gz, both of which exist.
C18_RotateToFreeName ==
    [][/\ segments' # segments =>
            \E k \in 0..MaxRotations :
                /\ k \notin DOMAIN segments
                /\ \A j \in 0..(k - 1) : j \in DOMAIN segments
                /\ DOMAIN segments' = DOMAIN segments \cup {k}
                /\ segments'[k] = results_file
                /\ \A j \in DOMAIN segments : segments'[j] = segments[j]
                /\ results_exists /\ ~results_exists'
                /\ results_file' = <<>>
                /\ k \in gz_pending'
       /\ \A k \in gz_pending :
            (Gzip(k) /\ response' = 200) =>
                /\ rotated_file' =
                       << <<"results_">> \o FormatInt(k) \o <<".jsonl">>,
                          <<"results_">> \o FormatInt(k) \o <<".jsonl", ".gz">> >>
                /\ Append(OutputDir, rotated_file'[1]) \in ExistingFiles'
                /\ Append(OutputDir, rotated_file'[2]) \in ExistingFiles'
                /\ k \in DOMAIN segments]_vars

\* two rotations with a commit before each, the second one answered after
\* the archive of the first was cleaned up
C18_Witness ==
    /\ DOMAIN segments = {0, 1}
    /\ Len(segments[0]) = 1
    /\ Len(segments[1]) = 1
    /\ rotated_file = <<RotatedName(1), GzName(RotatedName(1))>>
    /\ gz = {1}
    /\ response = 200

\* C19: a rotation whose rename fails (results.jsonl is not there) answers
\* 500 with the lock released and changes no file, set or queue; one whose
\* compression fails answers 500, holds no lock, and changes no log, set or
\* queue either.
C19_RotationConflict ==
    [][/\ (RotateFile /\ ~results_exists) =>
            /\ response' = 500
            /\ lock' = Free
            /\ UNCHANGED <<completed, private, assigned, available_queue,
                           last_queued_id, public_file, private_file,
                           results_file, results_exists, segments, gz>>
       /\ \A k \in gz_pending :
            GzipFault(k) =>
                /\ response' = 500
                /\ lock' = lock
                /\ UNCHANGED <<completed, private, assigned, available_queue,
                               last_queued_id, public_file, private_file,
                               results_file, results_exists, segments, gz>>]_vars

\* /rotate-file called again with no commit since the last rotation:
\* answered 500, with ids on the queue and a completed id in memory
C19_Witness ==
    /\ ~results_exists
    /\ response = 500
    /\ faults = 0
    /\ lock = Free
    /\ DOMAIN segments # {}
    /\ available_queue # <<>>
    /\ completed # {}

----------------------------------------------------------------------------
(* C21: a success answer and the assigned set *)

\* C21: when submit_completed or submit_private answers success for an id,
\* the id is not in assigned afterwards, also when the id was already in
\* completed (for submit_completed) or in private (for submit_private) at
\* the time of the call.
C21_SuccessClearsAssigned ==
    [][ /\ (SavePublic /\ pc' = "idle") => work_id \notin assigned'
        /\ SaveCommit => work_id \notin assigned'
        /\ PrivateCommit => work_id \notin assigned'
        /\ \A id \in Ids : (PrivateWrite(id) /\ pc' = "idle") => id \notin assigned'
      ]_vars

----------------------------------------------------------------------------
(* C22: the sets and the files *)

\* C22: the in-memory sets are never ahead of the files: in every reachable
\* state each id of completed has a line in public.txt and each id of
\* private has a line in private.txt.
C22_CacheBehindDisk ==
    /\ completed \subseteq LoadIds(public_file)
    /\ private \subseteq LoadIds(private_file)

\* both sets were filled by commits of this process lifetime, and a further
\* line is on public.txt that completed does not have yet
C22_Witness ==
    /\ epoch = 0
    /\ completed # {}
    /\ private # {}
    /\ pc = "save_commit"
    /\ work_id \in LoadIds(public_file) \ completed

----------------------------------------------------------------------------
(* C23: the lock *)

\* what the lock protects: the three sets, the queue and its cursor, the
\* three logs, and the segments a rotation renames results.jsonl to
Protected ==
    <<completed, private, assigned, available_queue, last_queued_id,
      public_file, private_file, results_file, segments>>

\* C23: mutual exclusion. A step that changes a set, the queue, the cursor
\* or a log, or renames results.jsonl, is taken either with the lock free
\* (the step takes it) or by the handler that holds it; while a handler
\* holds the lock no other section that takes the lock runs: the producer
\* does not move, nothing is dequeued and nothing is renamed.
C23_MutualExclusion ==
    /\ [](lock = Handler <=> pc # "idle")
    /\ [][Protected' # Protected =>
            \/ lock = Free
            \/ lock = Handler /\ pc' # pc]_vars
    /\ [][lock = Handler =>
            /\ pc' # pc
            /\ UNCHANGED <<available_queue, last_queued_id, qm_pc, qm_new_ids,
                           qm_end_id, dispatched, segments, results_exists>>]_vars

\* a handler inside its commit, holding the lock, while the producer waits
\* to push the ids it computed, after a batch was handed out and a segment
\* renamed
C23_Witness ==
    /\ lock = Handler
    /\ pc = "save_commit"
    /\ qm_pc = "extend"
    /\ qm_new_ids # {}
    /\ dispatched # <<>>
    /\ DOMAIN segments # {}

----------------------------------------------------------------------------
(* C29, C30: the refill *)

\* C29: the low-water trigger. Only the producer makes the queue longer,
\* and it does so only after it found the queue shorter than QUEUE_MIN_SIZE
\* and the cursor below end_id; both still hold when it pushes. So while
\* the queue holds QUEUE_MIN_SIZE ids or more, or once the cursor is at
\* end_id, the producer adds nothing and the cursor stays (until the
\* process is started again).
C29_LowWaterTrigger ==
    /\ [][(qm_pc = "check" /\ qm_pc' = "snapshot") =>
            Len(available_queue) < QUEUE_MIN_SIZE /\ last_queued_id < EndId]_vars
    /\ [][(qm_pc = "extend" /\ qm_pc' = "check" /\ epoch' = epoch) =>
            Len(available_queue) < QUEUE_MIN_SIZE /\ last_queued_id < EndId]_vars
    /\ [][Len(available_queue') > Len(available_queue) =>
            /\ qm_pc = "extend"
            /\ Len(available_queue) < QUEUE_MIN_SIZE
            /\ last_queued_id < EndId]_vars
    /\ [][((Len(available_queue) >= QUEUE_MIN_SIZE \/ last_queued_id >= EndId)
              /\ epoch' = epoch) =>
            /\ Len(available_queue') <= Len(available_queue)
            /\ last_queued_id' <= last_queued_id]_vars

\* a refill of a queue that is not empty: one id left on it, below
\* QUEUE_MIN_SIZE, and the producer has pushed the next window behind it
C29_Witness ==
    /\ epoch = 0
    /\ qm_pc = "check"
    /\ Len(available_queue) = 2
    /\ last_queued_id = EndId
    /\ Len(dispatched) = 1
    /\ available_queue[2] = EndId

\* C30: each refill covers the window from last_queued_id + 1 to
\* min(last_queued_id + QUEUE_BUMP_SIZE, end_id). The snapshot computes the
\* ids of the window that are in none of completed, private and assigned;
\* the push appends exactly these ids to the tail of the queue, each once,
\* and sets the cursor to the end of the window. In one process the cursor
\* never decreases and does not move between snapshot and push, so the
\* next window starts right after this one.
C30_RefillWindow ==
    /\ [][(qm_pc = "snapshot" /\ qm_pc' = "extend") =>
            LET lo == last_queued_id + 1
                hi == IF last_queued_id + QUEUE_BUMP_SIZE <= EndId
                      THEN last_queued_id + QUEUE_BUMP_SIZE ELSE EndId
            IN /\ qm_end_id' = hi
               /\ qm_new_ids' =
                     {id \in lo..hi : id \notin completed \cup private \cup assigned}
               /\ UNCHANGED <<available_queue, last_queued_id>>]_vars
    /\ [][(qm_pc = "extend" /\ qm_pc' = "check" /\ epoch' = epoch) =>
            LET n == Len(available_queue)
                hi == IF last_queued_id + QUEUE_BUMP_SIZE <= EndId
                      THEN last_queued_id + QUEUE_BUMP_SIZE ELSE EndId
            IN /\ qm_end_id = hi
               /\ qm_new_ids \subseteq (last_queued_id + 1)..hi
               /\ Len(available_queue') = n + Cardinality(qm_new_ids)
               /\ SubSeq(available_queue', 1, n) = available_queue
               /\ {available_queue'[i] : i \in (n + 1)..Len(available_queue')} = qm_new_ids
               /\ last_queued_id' = hi]_vars
    /\ [][epoch' = epoch =>
            /\ last_queued_id' >= last_queued_id
            /\ last_queued_id' # last_queued_id => qm_pc = "extend"]_vars

\* two refills in one process: the first window held a private id that was
\* left out, the second window is the rest of the range
C30_Witness ==
    /\ epoch = 0
    /\ StartId \in private
    /\ dispatched = <<StartId + 1>>
    /\ available_queue = <<EndId>>
    /\ last_queued_id = EndId
    /\ qm_pc = "check"

----------------------------------------------------------------------------
(* C24..C28: RangeSet *)

\* the integers a range list covers
Covered(rs) == UNION {rs[i][1]..rs[i][2] : i \in 1..Len(rs)}

\* sorted, no empty range, and consecutive ranges neither overlap nor touch
WellFormed(rs) ==
    \A i \in 1..Len(rs) :
        /\ rs[i][1] <= rs[i][2]
        /\ i < Len(rs) => rs[i + 1][1] > rs[i][2] + 1

\* C24: the representation invariant. After any sequence of from_values,
\* add, discard, union and pop_front the range list is sorted and no two
\* ranges overlap or touch. add(v) of an absent v puts v in, merging the
\* ranges that end at v - 1 and start at v + 1 into its range; discard(v)
\* of a present v takes v out: the range (v, v) is removed, a range that
\* starts or ends at v shrinks, any other is split in two.
C24_Representation ==
    /\ WellFormed(ranges)
    /\ \A v \in RsValues :
          LET before == Covered(ranges)
              added == Add(ranges, v)
              discarded == Discard(ranges, v)
              prev == IF v - 1 \in before THEN 1 ELSE 0
              next == IF v + 1 \in before THEN 1 ELSE 0
          IN /\ WellFormed(added)
             /\ Covered(added) = before \cup {v}
             /\ v \notin before => Len(added) = Len(ranges) + 1 - prev - next
             /\ WellFormed(discarded)
             /\ Covered(discarded) = before \ {v}
             /\ v \in before => Len(discarded) = Len(ranges) - 1 + prev + next

\* three ranges, as left by a discard that split a range
C24_Witness ==
    /\ ranges = << <<1, 1>>, <<3, 3>>, <<5, 5>> >>
    /\ rs_values = <<>>
    /\ returned = <<>>

\* C25: from_values round trip. For every list of integers, in any order
\* and with duplicates, the RangeSet built from it contains v exactly when
\* v is in the list, and its length is the number of distinct values of
\* the list.
C25_FromValuesRoundTrip ==
    rs_values # <<>> =>
        LET values == rs_values[1]
        IN /\ \A v \in Probes : Contains(ranges, v) <=> (\E i \in 1..Len(values) : values[i] = v)
           /\ RsLen(ranges) = Cardinality(Range(values))
           /\ Covered(ranges) = Range(values)

\* built from a list out of order with a duplicate: two ranges, length 2
C25_Witness ==
    /\ rs_values = << <<5, 1, 5>> >>
    /\ ranges = << <<1, 1>>, <<5, 5>> >>

\* the list of the integers of S, ascending
Ascending(S) == [k \in 1..Cardinality(S) |-> CHOOSE x \in S : Cardinality({y \in S : y < x}) = k - 1]

\* C26: the filter_range law. For every RangeSet and all lo <= hi,
\* filter_range(lo, hi) is the list of the integers of lo..hi that are not
\* in the set, ascending and without duplicates; for lo > hi it is empty.
C26_FilterRangeLaw ==
    \A lo, hi \in Probes :
        LET out == FilterRange(ranges, lo, hi)
        IN /\ out = Ascending({v \in lo..hi : ~Contains(ranges, v)})
           /\ \A i, j \in 1..Len(out) : i < j => out[i] < out[j]
           /\ Range(out) = (lo..hi) \ Covered(ranges)
           /\ lo > hi => out = <<>>

\* a gap inside the set and the values on both sides of it, returned for a
\* window wider than the set
C26_Witness ==
    /\ ranges = << <<1, 2>>, <<4, 4>> >>
    /\ returned = <<0, 3, 5, 6>>

\* C27: union. For all RangeSets A and B, A | B and B | A have the same
\* range list, which covers v exactly when A or B does; the union with the
\* empty RangeSet, on either side, and with the empty plain set, is a
\* range list equal to the operand's.
C27_UnionLaw ==
    /\ \A other \in Operands :
          LET ab == Or(ranges, other)
              ba == Or(other, ranges)
          IN /\ ab = ba
             /\ \A v \in Probes :
                   Contains(ab, v) <=> (Contains(ranges, v) \/ Contains(other, v))
             /\ WellFormed(ab)
    /\ Or(ranges, <<>>) = ranges
    /\ Or(<<>>, ranges) = ranges
    /\ OrValues(ranges, <<>>) = ranges

\* the union of two sets that interleave, joined into one range
C27_Witness ==
    /\ ranges = << <<1, 5>> >>
    /\ rs_values = <<>>
    /\ returned = <<>>
    /\ << <<1, 1>>, <<3, 3>>, <<5, 5>> >> \in Operands
    /\ Or(<< <<2, 2>>, <<4, 4>> >>, << <<1, 1>>, <<3, 3>>, <<5, 5>> >>) = ranges

\* C28: idempotence. add(v) twice leaves the range list that one add(v)
\* leaves, and discard(v) twice the one that one discard(v) leaves; add of
\* a value that is in the set and discard of one that is not change nothing.
C28_Idempotence ==
    \A v \in RsValues :
        /\ Add(Add(ranges, v), v) = Add(ranges, v)
        /\ Discard(Discard(ranges, v), v) = Discard(ranges, v)
        /\ Contains(ranges, v) => Add(ranges, v) = ranges
        /\ ~Contains(ranges, v) => Discard(ranges, v) = ranges

\* a set with a value inside a range, one at the end of a range and one
\* absent between two ranges
C28_Witness ==
    /\ ranges = << <<1, 3>>, <<5, 5>> >>
    /\ rs_values = <<>>
    /\ returned = <<>>

----------------------------------------------------------------------------
(* C31..C39 *)

\* C31 as stated: a process starts with the cursor at start_id - 1,
\* whatever the logs hold
C31_CursorAtStart ==
    [][epoch' # epoch => last_queued_id' = StartId - 1]_vars

\* C31, amended: a process starts with the cursor right before the first
\* id from start_id on that is in neither log: every id from start_id to
\* the cursor is completed or private and the next one is not. With
\* start_id in neither log (empty logs included) that is start_id - 1.
C31_CursorSkipsDone ==
    /\ last_queued_id = StartId - 1
    /\ [][epoch' # epoch =>
            /\ last_queued_id' >= StartId - 1
            /\ \A id \in StartId..last_queued_id' : id \in completed' \cup private'
            /\ (last_queued_id' + 1) \notin completed' \cup private'
            /\ StartId \notin completed' \cup private' => last_queued_id' = StartId - 1]_vars

\* a process started on logs that hold start_id and the id after it: the
\* cursor is at start_id + 1
C31_Witness ==
    /\ epoch >= 1
    /\ last_queued_id = StartId + 1
    /\ StartId \in completed
    /\ StartId + 1 \in private
    /\ available_queue = <<>>
    /\ qm_pc = "check"


C33_RotationOutsideCommit ==
    /\ [](pc = "save_public" =>
              /\ results_exists
              /\ results_file # <<>>
              /\ ParseInt(results_file[Len(results_file)].id) = work_id)
    /\ [][\A k \in DOMAIN segments :
              k \in DOMAIN segments' /\ segments'[k] = segments[k]]_vars
    /\ [][segments' # segments =>
              /\ pc = "idle" /\ pc' = "idle"
              /\ lock = Free /\ lock' = Free
              /\ \E k \in DOMAIN segments' \ DOMAIN segments :
                    /\ DOMAIN segments' = DOMAIN segments \cup {k}
                    /\ segments'[k] = results_file
              /\ results_file' = <<>>
              /\ RecordCount' = RecordCount]_vars
    /\ [][results_file' # results_file /\ segments' = segments =>
              /\ lock = Free /\ lock' = Handler
              /\ \E t \in WorkIdTexts :
                    results_file' = Append(results_file, JsonRecord(t))
              /\ results_exists']_vars

\* a commit after a rotation, between its two appends: its record is alone
\* in a fresh results.jsonl, the earlier record is in the segment
C33_Witness ==
    /\ pc = "save_public"
    /\ lock = Handler
    /\ Len(results_file) = 1
    /\ \E k \in DOMAIN segments : Len(segments[k]) = 1
    /\ Cardinality(completed) = 1


\* C37: no id is lost by the dispatcher. In every reachable state every id
\* from start_id to the cursor is on the queue, in assigned, in completed or
\* in private; the cursor stays within start_id - 1 .. end_id; and every id
\* on the queue or returned by get_work_batch is in start_id .. end_id.
C37_NoIdLost ==
    /\ \A id \in StartId..last_queued_id :
          id \in Range(available_queue) \cup assigned \cup completed \cup private
    /\ last_queued_id \in (StartId - 1)..EndId
    /\ \A i \in 1..Len(available_queue) :
          available_queue[i] >= StartId /\ available_queue[i] <= EndId
    /\ \A i \in 1..Len(dispatched) :
          dispatched[i] >= StartId /\ dispatched[i] <= EndId
    /\ assigned \subseteq StartId..EndId

\* the whole range generated, with one id in each place
C37_Witness ==
    /\ last_queued_id = EndId
    /\ available_queue # <<>>
    /\ assigned \ (completed \cup private) # {}
    /\ completed \cap (StartId..EndId) # {}
    /\ private \cap (StartId..EndId) # {}
    /\ Len(dispatched) >= 2


\* C38: the dispatch queue is bounded. The queue grows only by a refill, a
\* refill finds fewer than QUEUE_MIN_SIZE ids queued and adds at most
\* QUEUE_BUMP_SIZE, and the queue never holds more than
\* QUEUE_MIN_SIZE - 1 + QUEUE_BUMP_SIZE ids.
C38_QueueBounded ==
    /\ [](Len(available_queue) <= QUEUE_MIN_SIZE - 1 + QUEUE_BUMP_SIZE)
    /\ [][Len(available_queue') > Len(available_queue) =>
              /\ Len(available_queue) < QUEUE_MIN_SIZE
              /\ Len(available_queue') <= Len(available_queue) + QUEUE_BUMP_SIZE
              /\ qm_pc = "extend"]_vars

\* a full refill on top of a queue one short of the low-water mark: the
\* bound is reached
C38_Witness ==
    /\ Len(available_queue) = QUEUE_MIN_SIZE - 1 + QUEUE_BUMP_SIZE
    /\ qm_pc = "check"
    /\ last_queued_id = config_end_id


\* C39: dispatch liveness. With the producer scheduled fairly and the
\* workers polling get_work_batch, every id of the range that is neither
\* completed nor private is eventually returned by a get_work_batch call of
\* the running process, unless it is committed first; and the cursor
\* reaches end_id again and again (after every restart).
C39_DispatchLiveness ==
    /\ \A id \in Ids :
          (id \notin Done) ~> (id \in Range(dispatched) \/ id \in Done)
    /\ []<>(last_queued_id = EndId)

\* after a restart, the range generated again and an id that is still
\* neither completed nor private handed out again
C39_Witness ==
    /\ epoch >= 1
    /\ last_queued_id = EndId
    /\ \E id \in Range(dispatched) : id \notin Done /\ id > StartId
    /\ Done # {}


\* C34: a failed submission is retried. Once the coordinator has stopped
\* failing submissions, every id whose submission failed is eventually
\* submitted with success (and so leaves assigned on the coordinator).
C34_FailedSubmissionRetried ==
    \A id \in Ids : (id \in w_failed) ~> (id \in processed_ids)


\* C35: a worker started with --die-on-rate-limit that is answered 429 or
\* 503 stops, and hands the ids of its batch that it has not submitted back
\* to the coordinator.
C35_RateLimitReturnsWork ==
    (die_on_rate_limit /\ w_answer \in {"429", "503"}) =>
        /\ w_pc = "exited"
        /\ returned_work = <<Unprocessed>>


====
